---- MODULE Spec2Model ----
(***************************************************************************)
(* Model of cosign's blob verification command (VerifyBlobCmd), of its     *)
(* signature-input normalisation (isb64 + base64 encoding) and of the      *)
(* encrypted private key loader (LoadPrivateKey).                          *)
(*                                                                         *)
(* Strings and byte slices are sequences of byte values (0..255), so the   *)
(* base64 conversions are computed, not assumed.                           *)
(***************************************************************************)
EXTENDS Integers, Sequences, FiniteSets, TLC

(***************************************************************************)
(* Bounds of the model.                                                    *)
(***************************************************************************)
\* longest signature file / signature considered
MaxSigLen == 4
\* most certificates in a PEM bundle
MaxCerts == 2

(***************************************************************************)
(* encoding/base64, StdEncoding (RFC 4648 alphabet, '=' padding), as used  *)
(* by isb64, EncodeToString and DecodeString.                              *)
(***************************************************************************)
PadChar == 61
LF == 10
CR == 13

\* the character (ASCII code) of a 6-bit value
B64Char(i) ==
  IF i < 26 THEN 65 + i
  ELSE IF i < 52 THEN 97 + (i - 26)
  ELSE IF i < 62 THEN 48 + (i - 52)
  ELSE IF i = 62 THEN 43
  ELSE 47

\* the 6-bit value of a character, -1 when it is not in the alphabet
B64Index(c) ==
  IF c >= 65 /\ c <= 90 THEN c - 65
  ELSE IF c >= 97 /\ c <= 122 THEN c - 97 + 26
  ELSE IF c >= 48 /\ c <= 57 THEN c - 48 + 52
  ELSE IF c = 43 THEN 62
  ELSE IF c = 47 THEN 63
  ELSE -1

InAlphabet(c) == B64Index(c) >= 0

RECURSIVE B64Encode(_)
\* base64.StdEncoding.EncodeToString
B64Encode(b) ==
  IF Len(b) = 0 THEN <<>>
  ELSE IF Len(b) = 1 THEN
    LET n == b[1] * 16
    IN  <<B64Char(n \div 64), B64Char(n % 64), PadChar, PadChar>>
  ELSE IF Len(b) = 2 THEN
    LET n == (b[1] * 256 + b[2]) * 4
    IN  <<B64Char(n \div 4096), B64Char((n \div 64) % 64), B64Char(n % 64), PadChar>>
  ELSE
    LET n == b[1] * 65536 + b[2] * 256 + b[3]
    IN  <<B64Char(n \div 262144), B64Char((n \div 4096) % 64),
          B64Char((n \div 64) % 64), B64Char(n % 64)>>
        \o B64Encode(SubSeq(b, 4, Len(b)))

RECURSIVE StripNewlines(_)
\* the decoder skips '\r' and '\n' wherever they stand
StripNewlines(t) ==
  IF Len(t) = 0 THEN <<>>
  ELSE IF t[1] = LF \/ t[1] = CR THEN StripNewlines(Tail(t))
  ELSE <<t[1]>> \o StripNewlines(Tail(t))

\* a final quantum: four characters, or three and '=', or two and '=='
LastQuantumOk(q) ==
  /\ InAlphabet(q[1])
  /\ InAlphabet(q[2])
  /\ \/ InAlphabet(q[3]) /\ InAlphabet(q[4])
     \/ InAlphabet(q[3]) /\ q[4] = PadChar
     \/ q[3] = PadChar /\ q[4] = PadChar

\* the text the decoder accepts once newlines are skipped
WellFormed(u) ==
  /\ Len(u) % 4 = 0
  /\ \A i \in 1..Len(u) :
       i <= Len(u) - 4 => InAlphabet(u[i])
  /\ Len(u) > 0 => LastQuantumOk(SubSeq(u, Len(u) - 3, Len(u)))

RECURSIVE DecodeQuanta(_)
\* the bytes of well-formed text; trailing bits of a padded quantum are dropped
DecodeQuanta(u) ==
  IF Len(u) = 0 THEN <<>>
  ELSE
    LET i1 == B64Index(u[1])
        i2 == B64Index(u[2])
        i3 == B64Index(u[3])
        i4 == B64Index(u[4])
    IN  IF u[3] = PadChar THEN
          <<(i1 * 64 + i2) \div 16>>
        ELSE IF u[4] = PadChar THEN
          LET n == (i1 * 4096 + i2 * 64 + i3) \div 4
          IN  <<n \div 256, n % 256>>
        ELSE
          LET n == i1 * 262144 + i2 * 4096 + i3 * 64 + i4
          IN  <<n \div 65536, (n \div 256) % 256, n % 256>>
              \o DecodeQuanta(SubSeq(u, 5, Len(u)))

\* base64.StdEncoding.DecodeString: the err == nil part
B64DecodeOk(t) == WellFormed(StripNewlines(t))

\* base64.StdEncoding.DecodeString: the bytes, when err == nil
B64Decode(t) == DecodeQuanta(StripNewlines(t))

\* func isb64(data []byte) bool
isb64(data) == B64DecodeOk(data)

\* a plausible slip: the file is encoded whatever it holds (double encoding)
NormalizeSigAlwaysEncode(b) == B64Encode(b)

\* the base64 text kept for the bytes b of a signature file
NormalizeSig(b) == IF isb64(b) THEN b ELSE B64Encode(b)

(***************************************************************************)
(* Byte sequences the inputs are drawn from.                               *)
(***************************************************************************)
SeqsUpTo(S, n) == UNION {[1..k -> S] : k \in 0..n}

\* byte values of the signatures of the normalisation check:
\* NUL, '\n', 'A' and 0xFF
NzBytes == {0, 10, 65, 255}
NzSigs == SeqsUpTo(NzBytes, MaxSigLen)

(***************************************************************************)
(* Inputs of VerifyBlobCmd and what its environment can hold.              *)
(***************************************************************************)
\* what the signature file can hold: nothing; "\n"; the raw byte "A"; the
\* raw bytes "AAA"; the raw bytes "AAAA", which are base64 text too; the
\* base64 text "QQ==" of "A"; that text and a newline; the raw bytes 0x00 0xFF
SigFiles ==
  {<<>>, <<10>>, <<65>>, <<65, 65, 65>>, <<65, 65, 65, 65>>,
   <<81, 81, 61, 61>>, <<81, 81, 61, 61, 10>>, <<0, 255>>}

\* -signature: "", "QQ==" or "sig" (a literal base64 string or a path)
SigRefs == {<<>>, <<81, 81, 61, 61>>, <<115, 105, 103>>}
KeyRefs == {"", "cosign.pub"}
KmsVals == {"", "gcpkms://key"}
CertRefs == {"", "cert.pem"}
\* the blob: "-" for stdin, or a path
BlobRefs == {"-", "blob"}
BlobFiles == {<<>>, <<65>>}

\* an x509 certificate: the algorithm of its public key, and whether it
\* chains to fulcio.Roots
Certs == [alg : {"ecdsa", "rsa"}, trusted : BOOLEAN]
Bundles == SeqsUpTo(Certs, MaxCerts)

(***************************************************************************)
(* State.                                                                  *)
(***************************************************************************)
VARIABLES
  \* VerifyBlobCmd: parameters and environment
  keyRef, kmsVal, certRef, sigRef, blobRef,
  experimental, \* cosign.Experimental()
  cancelled,    \* ctx.Done() is closed
  \* VerifyBlobCmd: locals
  pc,
  pubKey,       \* <<>> (nil) or <<key>>
  certs,        \* the bundle LoadCerts returned
  cert,         \* <<>> (nil) or <<certificate>>
  b64sig, blobBytes, sig,
  pubBytes,
  \* VerifyBlobCmd: what it did
  calls,        \* the calls made so far, in order, each with its outcome
  verifyArgs,   \* <<>> or <<arguments of pubKey.Verify>>
  trustArg,     \* <<>> or <<the certificate given to TrustedCert>>
  tlogArgs,     \* <<>> or <<arguments of FindTlogEntry>>
  stderr,       \* the lines written to os.Stderr
  ret, err,     \* "running", "nil", "error" or "panic"; the error returned
  errKind,      \* the kind of the error returned, "nil" when none
  raised,       \* <<>> or <<the error the failing step produced>>
  \* the normalisation check
  nzSig,      \* the signature s
  nzText,     \* result for the file holding the base64 text of s
  nzRaw,      \* result for the file holding the raw bytes of s
  \* LoadPrivateKey: parameters, position, locals, result
  lkKey, lkPass,
  lkPc,
  lkBlock,    \* p: <<>> (nil) or <<the PEM block>>
  lkPlain,    \* x509Encoded: <<>> or <<the decrypted bytes>>
  lkParsed,   \* pk: <<>> or <<the parsed key>>
  lkCalls,    \* the library calls made, in order
  lkRet,      \* the (*ECDSAKey, error) returned
  \* ImageSignature: parameters, position, locals, result
  isImg, isAnn,
  isPc,
  isMarshal,     \* "none", or the outcome of MarshalJSON: "ok" or "error"
  isPayload,     \* payload: <<>> (nil) or <<bytes>>
  isSignature,   \* signature: <<>> (nil) or <<bytes>>
  isErr,         \* err
  isSignerCalls, \* what the signer was called on, and what it returned
  isRet          \* the (payload, signature, err) returned

params == <<keyRef, kmsVal, certRef, sigRef, blobRef, experimental>>
locals == <<pubKey, certs, cert, b64sig, blobBytes, sig, pubBytes>>
trace == <<calls, verifyArgs, trustArg, tlogArgs, stderr>>
vbVars == <<params, cancelled, pc, locals, trace, ret, err, errKind, raised>>
nzVars == <<nzSig, nzText, nzRaw>>
lkVars == <<lkKey, lkPass, lkPc, lkBlock, lkPlain, lkParsed, lkCalls, lkRet>>
isVars == <<isImg, isAnn, isPc, isMarshal, isPayload, isSignature, isErr,
            isSignerCalls, isRet>>
vars == <<vbVars, nzVars, lkVars, isVars>>

(***************************************************************************)
(* The normalisation of a signature file, on its own.                      *)
(***************************************************************************)
NoResult == [done |-> FALSE, b64sig |-> <<>>, sig |-> <<>>]

\* lines 130-153 on a signature file holding b
NormalizeFile(b) ==
  LET t == NormalizeSig(b)
  IN  [done |-> TRUE, b64sig |-> t, sig |-> B64Decode(t)]

NormalizeIdle ==
  /\ nzSig = <<>>
  /\ nzText = NoResult
  /\ nzRaw = NoResult

NzReadText ==
  /\ ~nzText.done
  /\ nzText' = NormalizeFile(B64Encode(nzSig))
  /\ UNCHANGED <<nzSig, nzRaw, vbVars, lkVars, isVars>>

NzReadRaw ==
  /\ ~nzRaw.done
  /\ nzRaw' = NormalizeFile(nzSig)
  /\ UNCHANGED <<nzSig, nzText, vbVars, lkVars, isVars>>

(***************************************************************************)
(* VerifyBlobCmd.                                                          *)
(***************************************************************************)
\* a call's record: what was called, whether it returned without error,
\* whether it was given ctx, and, for a call to a remote service, whether the
\* caller had cancelled ctx when it was made
CallRec(op, ok, hasCtx, remote) ==
  [op |-> op, ok |-> ok, ctx |-> hasCtx, cancelled |-> remote /\ cancelled]

\* the outcomes of a call to a remote service: one that is given the context
\* fails once the context is cancelled; one that is not given it cannot tell
RemoteOutcomes(hasCtx) == IF hasCtx /\ cancelled THEN {FALSE} ELSE BOOLEAN

\* return err
Return(e, k) ==
  /\ pc' = "done"
  /\ ret' = "error"
  /\ err' = e
  /\ errKind' = k

\* the kinds of error a step can produce
ErrKinds(step) ==
  IF step = "one of -key and -cert required" THEN {"ConfigError"}
  ELSE IF step = "LoadPublicKey" THEN {"FormatError", "IOError"}
  ELSE IF step \in {"kms.Get", "GetRekorClient"} THEN {"BackendError"}
  ELSE IF step \in {"LoadCerts", "no certs found in pem file", "DecodeString"}
    THEN {"FormatError"}
  ELSE IF step = "Verify" THEN {"VerifyError", "BackendError"}
  ELSE IF step = "TrustedCert" THEN {"TrustError"}
  ELSE IF step = "PublicKeyPem" THEN {"FormatError", "BackendError"}
  ELSE IF step = "FindTlogEntry" THEN {"NotFoundError", "BackendError"}
  ELSE {"IOError"}

\* the step fails with an error of kind k
Raise(step, k) == raised' = <<[step |-> step, kind |-> k]>>

\* if err != nil { return err }: the step fails and its error is returned
ReturnErr(step) ==
  \E k \in ErrKinds(step) : Raise(step, k) /\ Return(step, k)

\* control moves on to the statement at label l
Goto(l) ==
  /\ pc' = l
  /\ UNCHANGED <<ret, err, errKind, raised>>

\* pubBytes before it is set
NoPem == [pem |-> "nil", key |-> <<>>, cert |-> <<>>]

\* cosign.PublicKeyPem(ctx, pubKey): the PEM of a public key
PublicKeyPem(k) == [pem |-> "PUBLIC KEY", key |-> <<k>>, cert |-> <<>>]

\* cosign.CertToPem(cert): the PEM of a certificate
CertToPem(c) == [pem |-> "CERTIFICATE", key |-> <<>>, cert |-> <<c>>]

\* cosign.TrustedCert(cert, fulcio.Roots): err == nil
TrustedCert(c) == c.trusted

\* the outcomes of a method of pubKey that is given ctx: with a KMS-backed
\* key it is a remote call
KeyCallOutcomes(k) == IF k.kind = "kms" THEN RemoteOutcomes(TRUE) ELSE BOOLEAN

VerifyIdle ==
  /\ keyRef = "" /\ kmsVal = "" /\ certRef = ""
  /\ sigRef = <<>> /\ blobRef = "-"
  /\ experimental = FALSE
  /\ cancelled = FALSE
  /\ pc = "idle"
  /\ pubKey = <<>> /\ certs = <<>> /\ cert = <<>>
  /\ b64sig = <<>> /\ blobBytes = <<>> /\ sig = <<>>
  /\ pubBytes = NoPem
  /\ calls = <<>>
  /\ verifyArgs = <<>> /\ trustArg = <<>> /\ tlogArgs = <<>>
  /\ stderr = <<>>
  /\ ret = "running" /\ err = "nil"
  /\ errKind = "nil" /\ raised = <<>>

InitVerify ==
  /\ keyRef \in KeyRefs
  /\ kmsVal \in KmsVals
  /\ certRef \in CertRefs
  /\ sigRef \in SigRefs
  /\ blobRef \in BlobRefs
  /\ experimental \in BOOLEAN
  /\ cancelled = FALSE
  /\ pc = "SelectMode"
  /\ pubKey = <<>> /\ certs = <<>> /\ cert = <<>>
  /\ b64sig = <<>> /\ blobBytes = <<>> /\ sig = <<>>
  /\ pubBytes = NoPem
  /\ calls = <<>>
  /\ verifyArgs = <<>> /\ trustArg = <<>> /\ tlogArgs = <<>>
  /\ stderr = <<>>
  /\ ret = "running" /\ err = "nil"
  /\ errKind = "nil" /\ raised = <<>>

\* the caller cancels ctx while the command runs
Cancel ==
  /\ pc # "done"
  /\ ~cancelled
  /\ cancelled' = TRUE
  /\ UNCHANGED <<params, pc, locals, trace, ret, err, errKind, raised, nzVars, lkVars, isVars>>

\* case keyRef != "": cosign.LoadPublicKey(ctx, keyRef)
LoadKeyRef ==
  /\ pc = "SelectMode"
  /\ keyRef # ""
  /\ \E ok \in BOOLEAN :
       /\ calls' = Append(calls, CallRec("LoadPublicKey", ok, TRUE, FALSE))
       /\ IF ok
          THEN /\ pubKey' = <<[kind |-> "key", ref |-> keyRef]>>
               /\ Goto("StatSig")
          ELSE /\ ReturnErr("LoadPublicKey")
               /\ UNCHANGED pubKey
  /\ UNCHANGED <<params, cancelled, certs, cert, b64sig, blobBytes, sig, pubBytes,
                 verifyArgs, trustArg, tlogArgs, stderr, nzVars, lkVars, isVars>>

\* a plausible slip: a new error is returned and the cause is lost
\* (errors.New in place of errors.Wrap)
GetKmsDropsCause ==
  /\ pc = "SelectMode"
  /\ keyRef = ""
  /\ kmsVal # ""
  /\ \E ok \in RemoteOutcomes(TRUE) :
       /\ calls' = Append(calls, CallRec("kms.Get", ok, TRUE, TRUE))
       /\ IF ok
          THEN /\ pubKey' = <<[kind |-> "kms", ref |-> kmsVal]>>
               /\ Goto("StatSig")
          ELSE /\ \E k \in ErrKinds("kms.Get") :
                    Raise("kms.Get", k) /\ Return("getting kms", "Error")
               /\ UNCHANGED pubKey
  /\ UNCHANGED <<params, cancelled, certs, cert, b64sig, blobBytes, sig, pubBytes,
                 verifyArgs, trustArg, tlogArgs, stderr, nzVars, lkVars, isVars>>

\* case kmsVal != "": kms.Get(ctx, kmsVal)
GetKms ==
  /\ pc = "SelectMode"
  /\ keyRef = ""
  /\ kmsVal # ""
  /\ \E ok \in RemoteOutcomes(TRUE) :
       /\ calls' = Append(calls, CallRec("kms.Get", ok, TRUE, TRUE))
       /\ IF ok
          THEN /\ pubKey' = <<[kind |-> "kms", ref |-> kmsVal]>>
               /\ Goto("StatSig")
          ELSE /\ \E k \in ErrKinds("kms.Get") :
                    Raise("kms.Get", k) /\ Return("getting kms", k)
               /\ UNCHANGED pubKey
  /\ UNCHANGED <<params, cancelled, certs, cert, b64sig, blobBytes, sig, pubBytes,
                 verifyArgs, trustArg, tlogArgs, stderr, nzVars, lkVars, isVars>>

\* case certRef != "": ioutil.ReadFile(certRef)
ReadCertFile ==
  /\ pc = "SelectMode"
  /\ keyRef = ""
  /\ kmsVal = ""
  /\ certRef # ""
  /\ \E ok \in BOOLEAN :
       /\ calls' = Append(calls, CallRec("ReadFile(cert)", ok, FALSE, FALSE))
       /\ IF ok THEN Goto("LoadCerts") ELSE ReturnErr("ReadFile(cert)")
  /\ UNCHANGED <<params, cancelled, locals, verifyArgs, trustArg, tlogArgs,
                 stderr, nzVars, lkVars, isVars>>

\* cosign.LoadCerts(string(pems))
LoadCerts ==
  /\ pc = "LoadCerts"
  /\ \/ /\ calls' = Append(calls, CallRec("LoadCerts", FALSE, FALSE, FALSE))
        /\ ReturnErr("LoadCerts")
        /\ UNCHANGED certs
     \/ \E cs \in Bundles :
          /\ calls' = Append(calls, CallRec("LoadCerts", TRUE, FALSE, FALSE))
          /\ certs' = cs
          /\ Goto("PickLeaf")
  /\ UNCHANGED <<params, cancelled, pubKey, cert, b64sig, blobBytes, sig,
                 pubBytes, verifyArgs, trustArg, tlogArgs, stderr, nzVars, lkVars, isVars>>

\* a plausible slip: "cert := certs[0]" declares a cert local to the case, and
\* the function's cert stays nil
PickLeafShadowsCert ==
  /\ pc = "PickLeaf"
  /\ IF Len(certs) = 0
     THEN /\ ReturnErr("no certs found in pem file")
          /\ UNCHANGED pubKey
     ELSE IF certs[1].alg = "ecdsa"
     THEN /\ pubKey' = <<[kind |-> "cert", ref |-> certRef]>>
          /\ Goto("StatSig")
     ELSE /\ pc' = "done"
          /\ ret' = "panic"
          /\ UNCHANGED <<err, errKind, raised, pubKey>>
  /\ UNCHANGED <<params, cancelled, certs, cert, b64sig, blobBytes, sig, pubBytes,
                 trace, nzVars, lkVars, isVars>>

\* len(certs) == 0; cert = certs[0]; cert.PublicKey.(*ecdsa.PublicKey):
\* the assertion has no ", ok" form, so it panics on another key type
PickLeaf ==
  /\ pc = "PickLeaf"
  /\ IF Len(certs) = 0
     THEN /\ ReturnErr("no certs found in pem file")
          /\ UNCHANGED <<cert, pubKey>>
     ELSE /\ cert' = <<certs[1]>>
          /\ IF certs[1].alg = "ecdsa"
             THEN /\ pubKey' = <<[kind |-> "cert", ref |-> certRef]>>
                  /\ Goto("StatSig")
             ELSE /\ pc' = "done"
                  /\ ret' = "panic"
                  /\ UNCHANGED <<err, errKind, raised, pubKey>>
  /\ UNCHANGED <<params, cancelled, certs, b64sig, blobBytes, sig, pubBytes,
                 trace, nzVars, lkVars, isVars>>

\* a plausible slip: the switch has no default, and the run goes on without a key
NoSelectorFallsThrough ==
  /\ pc = "SelectMode"
  /\ keyRef = ""
  /\ kmsVal = ""
  /\ certRef = ""
  /\ Goto("StatSig")
  /\ UNCHANGED <<params, cancelled, locals, trace, nzVars, lkVars, isVars>>

\* default: return errors.New("one of -key and -cert required")
NoSelector ==
  /\ pc = "SelectMode"
  /\ keyRef = ""
  /\ kmsVal = ""
  /\ certRef = ""
  /\ ReturnErr("one of -key and -cert required")
  /\ UNCHANGED <<params, cancelled, locals, trace, nzVars, lkVars, isVars>>

\* os.Stat(sigRef): a file, no such file (sigRef is the signature itself),
\* or another error
StatSig ==
  /\ pc = "StatSig"
  /\ \E st \in {"file", "notexist", "error"} :
       /\ calls' = Append(calls, CallRec("Stat(sig)", st # "error", FALSE, FALSE))
       /\ IF st = "file"
          THEN /\ Goto("ReadSig")
               /\ UNCHANGED b64sig
          ELSE IF st = "notexist"
          THEN /\ b64sig' = sigRef
               /\ Goto("ReadBlob")
          ELSE /\ ReturnErr("Stat(sig)")
               /\ UNCHANGED b64sig
  /\ UNCHANGED <<params, cancelled, pubKey, certs, cert, blobBytes, sig,
                 pubBytes, verifyArgs, trustArg, tlogArgs, stderr, nzVars, lkVars, isVars>>

\* ioutil.ReadFile(filepath.Clean(sigRef)), then isb64 / EncodeToString
ReadSigFile ==
  /\ pc = "ReadSig"
  /\ \/ /\ calls' = Append(calls, CallRec("ReadFile(sig)", FALSE, FALSE, FALSE))
        /\ ReturnErr("ReadFile(sig)")
        /\ UNCHANGED b64sig
     \/ \E b \in SigFiles :
          /\ calls' = Append(calls, CallRec("ReadFile(sig)", TRUE, FALSE, FALSE))
          /\ b64sig' = NormalizeSig(b)
          /\ Goto("ReadBlob")
  /\ UNCHANGED <<params, cancelled, pubKey, certs, cert, blobBytes, sig,
                 pubBytes, verifyArgs, trustArg, tlogArgs, stderr, nzVars, lkVars, isVars>>

\* ioutil.ReadAll(os.Stdin) or ioutil.ReadFile(filepath.Clean(blobRef))
ReadBlob ==
  /\ pc = "ReadBlob"
  /\ LET op == IF blobRef = "-" THEN "ReadAll(stdin)" ELSE "ReadFile(blob)"
     IN  \/ /\ calls' = Append(calls, CallRec(op, FALSE, FALSE, FALSE))
            /\ ReturnErr(op)
            /\ UNCHANGED blobBytes
         \/ \E b \in BlobFiles :
              /\ calls' = Append(calls, CallRec(op, TRUE, FALSE, FALSE))
              /\ blobBytes' = b
              /\ Goto("DecodeSig")
  /\ UNCHANGED <<params, cancelled, pubKey, certs, cert, b64sig, sig,
                 pubBytes, verifyArgs, trustArg, tlogArgs, stderr, nzVars, lkVars, isVars>>

\* sig, err := base64.StdEncoding.DecodeString(b64sig)
DecodeSig ==
  /\ pc = "DecodeSig"
  /\ calls' = Append(calls, CallRec("DecodeString", B64DecodeOk(b64sig), FALSE, FALSE))
  /\ IF B64DecodeOk(b64sig)
     THEN /\ sig' = B64Decode(b64sig)
          /\ Goto("Verify")
     ELSE /\ ReturnErr("DecodeString")
          /\ UNCHANGED sig
  /\ UNCHANGED <<params, cancelled, pubKey, certs, cert, b64sig, blobBytes,
                 pubBytes, verifyArgs, trustArg, tlogArgs, stderr, nzVars, lkVars, isVars>>

\* a plausible slip: the error of pubKey.Verify is dropped
VerifySigIgnoreErr ==
  /\ pc = "Verify"
  /\ \E ok \in KeyCallOutcomes(pubKey[1]) :
       /\ calls' = Append(calls, CallRec("Verify", ok, TRUE, pubKey[1].kind = "kms"))
       /\ verifyArgs' = <<[key |-> pubKey[1], blob |-> blobBytes, sig |-> sig]>>
       /\ Goto("TrustChain")
  /\ UNCHANGED <<params, cancelled, locals, trustArg, tlogArgs, stderr, nzVars, lkVars, isVars>>

\* if err := pubKey.Verify(ctx, blobBytes, sig); err != nil { return err }
VerifySig ==
  /\ pc = "Verify"
  /\ \E ok \in KeyCallOutcomes(pubKey[1]) :
       /\ calls' = Append(calls, CallRec("Verify", ok, TRUE, pubKey[1].kind = "kms"))
       /\ verifyArgs' = <<[key |-> pubKey[1], blob |-> blobBytes, sig |-> sig]>>
       /\ IF ok THEN Goto("TrustChain") ELSE ReturnErr("Verify")
  /\ UNCHANGED <<params, cancelled, locals, trustArg, tlogArgs, stderr, nzVars, lkVars, isVars>>

\* a plausible slip: an untrusted certificate is reported, and the run goes on
TrustChainGoesOn ==
  /\ pc = "TrustChain"
  /\ IF cert # <<>>
     THEN /\ calls' = Append(calls, CallRec("TrustedCert", TrustedCert(cert[1]), FALSE, FALSE))
          /\ trustArg' = cert
          /\ stderr' = IF TrustedCert(cert[1])
                       THEN stderr \o <<"Certificate is trusted by Fulcio Root CA",
                                        "Email:">>
                       ELSE stderr
          /\ Goto("PrintVerified")
     ELSE /\ Goto("PrintVerified")
          /\ UNCHANGED <<calls, trustArg, stderr>>
  /\ UNCHANGED <<params, cancelled, locals, verifyArgs, tlogArgs, nzVars, lkVars, isVars>>

\* if cert != nil { cosign.TrustedCert(cert, fulcio.Roots) ... }
TrustChain ==
  /\ pc = "TrustChain"
  /\ IF cert # <<>>
     THEN /\ calls' = Append(calls, CallRec("TrustedCert", TrustedCert(cert[1]), FALSE, FALSE))
          /\ trustArg' = cert
          /\ IF TrustedCert(cert[1])
             THEN /\ stderr' = stderr \o <<"Certificate is trusted by Fulcio Root CA",
                                          "Email:">>
                  /\ Goto("PrintVerified")
             ELSE /\ ReturnErr("TrustedCert")
                  /\ UNCHANGED stderr
     ELSE /\ Goto("PrintVerified")
          /\ UNCHANGED <<calls, trustArg, stderr>>
  /\ UNCHANGED <<params, cancelled, locals, verifyArgs, tlogArgs, nzVars, lkVars, isVars>>

\* fmt.Fprintln(os.Stderr, "Verified OK")
PrintVerified ==
  /\ pc = "PrintVerified"
  /\ stderr' = Append(stderr, "Verified OK")
  /\ Goto("Experimental")
  /\ UNCHANGED <<params, cancelled, locals, calls, verifyArgs, trustArg,
                 tlogArgs, nzVars, lkVars, isVars>>

\* a plausible slip: the transparency check is made whatever the setting
CheckExperimentalAlways ==
  /\ pc = "Experimental"
  /\ Goto("GetRekorClient")
  /\ UNCHANGED <<params, cancelled, locals, trace, nzVars, lkVars, isVars>>

\* if cosign.Experimental() { ... } return nil
CheckExperimental ==
  /\ pc = "Experimental"
  /\ IF experimental
     THEN Goto("GetRekorClient")
     ELSE /\ pc' = "done"
          /\ ret' = "nil"
          /\ UNCHANGED <<err, errKind, raised>>
  /\ UNCHANGED <<params, cancelled, locals, trace, nzVars, lkVars, isVars>>

\* app.GetRekorClient(cosign.TlogServer()): it is not given ctx
GetRekorClient ==
  /\ pc = "GetRekorClient"
  /\ \E ok \in RemoteOutcomes(FALSE) :
       /\ calls' = Append(calls, CallRec("GetRekorClient", ok, FALSE, TRUE))
       /\ IF ok THEN Goto("EncodePub") ELSE ReturnErr("GetRekorClient")
  /\ UNCHANGED <<params, cancelled, locals, verifyArgs, trustArg, tlogArgs,
                 stderr, nzVars, lkVars, isVars>>

\* a plausible slip: the PEM of the certificate does not replace that of its key
EncodePubKeepsKeyPem ==
  /\ pc = "EncodePub"
  /\ IF pubKey # <<>>
     THEN \E ok \in KeyCallOutcomes(pubKey[1]) :
            /\ calls' = Append(calls, CallRec("PublicKeyPem", ok, TRUE, pubKey[1].kind = "kms"))
            /\ IF ok
               THEN /\ pubBytes' = PublicKeyPem(pubKey[1])
                    /\ Goto("FindTlogEntry")
               ELSE /\ ReturnErr("PublicKeyPem")
                    /\ UNCHANGED pubBytes
     ELSE /\ pubBytes' = IF cert # <<>> THEN CertToPem(cert[1]) ELSE pubBytes
          /\ Goto("FindTlogEntry")
          /\ UNCHANGED calls
  /\ UNCHANGED <<params, cancelled, pubKey, certs, cert, b64sig, blobBytes, sig,
                 verifyArgs, trustArg, tlogArgs, stderr, nzVars, lkVars, isVars>>

\* if pubKey != nil { pubBytes, err = cosign.PublicKeyPem(ctx, pubKey) ... }
\* if cert != nil { pubBytes = cosign.CertToPem(cert) }
EncodePub ==
  /\ pc = "EncodePub"
  /\ IF pubKey # <<>>
     THEN \E ok \in KeyCallOutcomes(pubKey[1]) :
            /\ calls' = Append(calls, CallRec("PublicKeyPem", ok, TRUE, pubKey[1].kind = "kms"))
            /\ IF ok
               THEN /\ pubBytes' = IF cert # <<>> THEN CertToPem(cert[1])
                                   ELSE PublicKeyPem(pubKey[1])
                    /\ Goto("FindTlogEntry")
               ELSE /\ ReturnErr("PublicKeyPem")
                    /\ UNCHANGED pubBytes
     ELSE /\ pubBytes' = IF cert # <<>> THEN CertToPem(cert[1]) ELSE pubBytes
          /\ Goto("FindTlogEntry")
          /\ UNCHANGED calls
  /\ UNCHANGED <<params, cancelled, pubKey, certs, cert, b64sig, blobBytes, sig,
                 verifyArgs, trustArg, tlogArgs, stderr, nzVars, lkVars, isVars>>

\* a plausible slip: a failed lookup is made again
FindTlogEntryRetry ==
  /\ pc = "FindTlogEntry"
  /\ \E ok \in RemoteOutcomes(FALSE) :
       /\ calls' = Append(calls, CallRec("FindTlogEntry", ok, FALSE, TRUE))
       /\ tlogArgs' = <<[b64sig |-> b64sig, payload |-> blobBytes, pub |-> pubBytes]>>
       /\ IF ok
          THEN /\ stderr' = Append(stderr, "tlog entry verified with index: ")
               /\ pc' = "done"
               /\ ret' = "nil"
               /\ UNCHANGED <<err, errKind, raised>>
          ELSE /\ Goto("FindTlogEntry")
               /\ UNCHANGED stderr
  /\ UNCHANGED <<params, cancelled, locals, verifyArgs, trustArg, nzVars, lkVars, isVars>>

\* cosign.FindTlogEntry(rekorClient, b64sig, blobBytes, pubBytes): it is not
\* given ctx
FindTlogEntry ==
  /\ pc = "FindTlogEntry"
  /\ \E ok \in RemoteOutcomes(FALSE) :
       /\ calls' = Append(calls, CallRec("FindTlogEntry", ok, FALSE, TRUE))
       /\ tlogArgs' = <<[b64sig |-> b64sig, payload |-> blobBytes, pub |-> pubBytes]>>
       /\ IF ok
          THEN /\ stderr' = Append(stderr, "tlog entry verified with index: ")
               /\ pc' = "done"
               /\ ret' = "nil"
               /\ UNCHANGED <<err, errKind, raised>>
          ELSE /\ ReturnErr("FindTlogEntry")
               /\ UNCHANGED stderr
  /\ UNCHANGED <<params, cancelled, locals, verifyArgs, trustArg, nzVars, lkVars, isVars>>

(***************************************************************************)
(* LoadPrivateKey.                                                         *)
(***************************************************************************)
\* const pemType
pemType == "ENCRYPTED COSIGN PRIVATE KEY"

PemTypes == {pemType, "PRIVATE KEY"}
Passes == {"hunter2", "letmein", ""}

\* what the key bytes can be: PEM or not; the type of the block; the
\* passphrase its payload was sealed with, or a corrupt payload; and what the
\* sealed plaintext is
KeyFiles ==
  [pem : BOOLEAN,
   type : PemTypes,
   sealedWith : Passes \cup {"corrupt"},
   der : {"pkcs8-ecdsa", "pkcs8-rsa", "garbage"}]

\* encrypted.Decrypt(p.Bytes, pass): err == nil. The payload is sealed with
\* an authenticated cipher under a key derived from the passphrase.
DecryptOk(bytes, pass) == bytes.sealedWith = pass

\* x509.ParsePKCS8PrivateKey(x509Encoded): err == nil
ParseOk(der) == der \in {"pkcs8-ecdsa", "pkcs8-rsa"}

\* a plausible slip: the type assertion's ok is not looked at
IsECDSAUnchecked(der) == TRUE

\* epk, ok := pk.(*ecdsa.PrivateKey)
IsECDSA(der) == der = "pkcs8-ecdsa"

NoKey == [key |-> <<>>, err |-> "nil"]

LoadIdle ==
  /\ lkKey = [pem |-> FALSE, type |-> pemType, sealedWith |-> "", der |-> "garbage"]
  /\ lkPass = ""
  /\ lkPc = "idle"
  /\ lkBlock = <<>> /\ lkPlain = <<>> /\ lkParsed = <<>>
  /\ lkCalls = <<>>
  /\ lkRet = NoKey

InitLoad ==
  /\ lkKey \in KeyFiles
  /\ lkPass \in Passes
  /\ lkPc = "PemDecode"
  /\ lkBlock = <<>> /\ lkPlain = <<>> /\ lkParsed = <<>>
  /\ lkCalls = <<>>
  /\ lkRet = NoKey

\* return nil, err
LkFail(e) ==
  /\ lkPc' = "done"
  /\ lkRet' = [key |-> <<>>, err |-> e]

\* p, _ := pem.Decode(key); if p == nil { ... }
LkPemDecode ==
  /\ lkPc = "PemDecode"
  /\ lkCalls' = Append(lkCalls, "pem.Decode")
  /\ IF lkKey.pem
     THEN /\ lkBlock' = <<[type |-> lkKey.type,
                           bytes |-> [sealedWith |-> lkKey.sealedWith,
                                      der |-> lkKey.der]]>>
          /\ lkPc' = "CheckType"
          /\ UNCHANGED lkRet
     ELSE /\ LkFail("invalid pem block")
          /\ UNCHANGED lkBlock
  /\ UNCHANGED <<lkKey, lkPass, lkPlain, lkParsed, vbVars, nzVars, isVars>>

\* a plausible slip: the type of the block is not looked at
LkCheckTypeSkipped ==
  /\ lkPc = "CheckType"
  /\ lkPc' = "Decrypt"
  /\ UNCHANGED <<lkKey, lkPass, lkBlock, lkPlain, lkParsed, lkCalls, lkRet, vbVars, nzVars, isVars>>

\* if p.Type != pemType { ... }
LkCheckType ==
  /\ lkPc = "CheckType"
  /\ IF lkBlock[1].type # pemType
     THEN LkFail("unsupported pem type")
     ELSE /\ lkPc' = "Decrypt"
          /\ UNCHANGED lkRet
  /\ UNCHANGED <<lkKey, lkPass, lkBlock, lkPlain, lkParsed, lkCalls, vbVars, nzVars, isVars>>

\* x509Encoded, err := encrypted.Decrypt(p.Bytes, pass)
LkDecrypt ==
  /\ lkPc = "Decrypt"
  /\ lkCalls' = Append(lkCalls, "encrypted.Decrypt")
  /\ IF DecryptOk(lkBlock[1].bytes, lkPass)
     THEN /\ lkPlain' = <<lkBlock[1].bytes.der>>
          /\ lkPc' = "Parse"
          /\ UNCHANGED lkRet
     ELSE /\ LkFail("decrypt")
          /\ UNCHANGED lkPlain
  /\ UNCHANGED <<lkKey, lkPass, lkBlock, lkParsed, vbVars, nzVars, isVars>>

\* pk, err := x509.ParsePKCS8PrivateKey(x509Encoded)
LkParse ==
  /\ lkPc = "Parse"
  /\ lkCalls' = Append(lkCalls, "x509.ParsePKCS8PrivateKey")
  /\ IF ParseOk(lkPlain[1])
     THEN /\ lkParsed' = lkPlain
          /\ lkPc' = "CheckEC"
          /\ UNCHANGED lkRet
     ELSE /\ LkFail("parsing private key")
          /\ UNCHANGED lkParsed
  /\ UNCHANGED <<lkKey, lkPass, lkBlock, lkPlain, vbVars, nzVars, isVars>>

\* epk, ok := pk.(*ecdsa.PrivateKey); if !ok { ... }; return WithECDSAKey(epk), nil
LkCheckEC ==
  /\ lkPc = "CheckEC"
  /\ IF IsECDSA(lkParsed[1])
     THEN /\ lkPc' = "done"
          /\ lkRet' = [key |-> lkParsed, err |-> "nil"]
     ELSE LkFail("invalid private key")
  /\ UNCHANGED <<lkKey, lkPass, lkBlock, lkPlain, lkParsed, lkCalls, vbVars, nzVars, isVars>>

(***************************************************************************)
(* PayloadSignature and ImageSignature.                                    *)
(***************************************************************************)
\* the image descriptors (their digests) and the annotations signed
Imgs == {"sha256:aa", "sha256:bb", "sha256:cc", "sha256:dd"}
Anns == {"none", "env=prod", "env=test"}

\* what a Signer can return: any signature bytes, with or without an error
SignerSigs == {<<>>, <<48>>, <<48, 69>>}
SignerErrs == {"nil", "kms unreachable"}

\* signable.MarshalJSON(), when err == nil: the bytes of the payload
MarshalJSON(img, ann) == <<"simple signing", img, ann>>

NoReturn == [payload |-> <<>>, signature |-> <<>>, err |-> "none"]

SignIdle ==
  /\ isImg = "sha256:aa" /\ isAnn = "none"
  /\ isPc = "idle"
  /\ isMarshal = "none"
  /\ isPayload = <<>> /\ isSignature = <<>> /\ isErr = "nil"
  /\ isSignerCalls = <<>>
  /\ isRet = NoReturn

InitSign ==
  /\ isImg \in Imgs
  /\ isAnn \in Anns
  /\ isPc = "Marshal"
  /\ isMarshal = "none"
  /\ isPayload = <<>> /\ isSignature = <<>> /\ isErr = "nil"
  /\ isSignerCalls = <<>>
  /\ isRet = NoReturn

\* payload, err = signable.MarshalJSON(); if err != nil { return nil, nil, ... }
IsMarshalPayload ==
  /\ isPc = "Marshal"
  /\ \/ /\ isMarshal' = "error"
        /\ isErr' = "marshal"
        /\ isRet' = [payload |-> <<>>, signature |-> <<>>,
                     err |-> "failed to create image signature payload"]
        /\ isPc' = "done"
        /\ UNCHANGED isPayload
     \/ /\ isMarshal' = "ok"
        /\ isPayload' = <<MarshalJSON(isImg, isAnn)>>
        /\ isPc' = "PayloadSignature"
        /\ UNCHANGED <<isErr, isRet>>
  /\ UNCHANGED <<isImg, isAnn, isSignature, isSignerCalls, vbVars, nzVars, lkVars>>

\* what PayloadSignature returns for what signer.Sign returned
PayloadSignature(s, e) ==
  IF e # "nil"
  THEN [signature |-> <<>>, err |-> "failed to create signature"]
  ELSE [signature |-> <<s>>, err |-> "nil"]

\* signature, err = PayloadSignature(ctx, signer, payload)
IsPayloadSignature ==
  /\ isPc = "PayloadSignature"
  /\ \E s \in SignerSigs, e \in SignerErrs :
       /\ isSignerCalls' = Append(isSignerCalls,
                                  [payload |-> isPayload[1], sig |-> s, err |-> e])
       /\ isSignature' = PayloadSignature(s, e).signature
       /\ isErr' = PayloadSignature(s, e).err
  /\ isPc' = "Return"
  /\ UNCHANGED <<isImg, isAnn, isMarshal, isPayload, isRet, vbVars, nzVars, lkVars>>

\* a plausible slip: the payload is returned along with the error
IsReturnKeepsPayload ==
  /\ isPc = "Return"
  /\ isRet' = IF isErr # "nil"
              THEN [payload |-> isPayload, signature |-> <<>>, err |-> isErr]
              ELSE [payload |-> isPayload, signature |-> isSignature, err |-> "nil"]
  /\ isPc' = "done"
  /\ UNCHANGED <<isImg, isAnn, isMarshal, isPayload, isSignature, isErr,
                 isSignerCalls, vbVars, nzVars, lkVars>>

\* if err != nil { return nil, nil, err }; return payload, signature, nil
IsReturn ==
  /\ isPc = "Return"
  /\ isRet' = IF isErr # "nil"
              THEN [payload |-> <<>>, signature |-> <<>>, err |-> isErr]
              ELSE [payload |-> isPayload, signature |-> isSignature, err |-> "nil"]
  /\ isPc' = "done"
  /\ UNCHANGED <<isImg, isAnn, isMarshal, isPayload, isSignature, isErr,
                 isSignerCalls, vbVars, nzVars, lkVars>>

(***************************************************************************)
(* Specifications.                                                         *)
(***************************************************************************)
Init == InitVerify /\ NormalizeIdle /\ LoadIdle /\ SignIdle

Next ==
  \/ Cancel
  \/ LoadKeyRef
  \/ GetKms
  \/ ReadCertFile
  \/ LoadCerts
  \/ PickLeaf
  \/ NoSelector
  \/ StatSig
  \/ ReadSigFile
  \/ ReadBlob
  \/ DecodeSig
  \/ VerifySig
  \/ TrustChain
  \/ PrintVerified
  \/ CheckExperimental
  \/ GetRekorClient
  \/ EncodePub
  \/ FindTlogEntry

\* one run of VerifyBlobCmd
Spec == Init /\ [][Next]_vars

InitNormalize ==
  /\ nzSig \in NzSigs
  /\ nzText = NoResult
  /\ nzRaw = NoResult
  /\ VerifyIdle
  /\ LoadIdle
  /\ SignIdle

NextNormalize == NzReadText \/ NzReadRaw

\* the normalisation of one signature, given as base64 text and as raw bytes
SpecNormalize == InitNormalize /\ [][NextNormalize]_vars

InitLoadKey == InitLoad /\ VerifyIdle /\ NormalizeIdle /\ SignIdle

NextLoadKey ==
  \/ LkPemDecode
  \/ LkCheckType
  \/ LkDecrypt
  \/ LkParse
  \/ LkCheckEC

\* one call of LoadPrivateKey
SpecLoadKey == InitLoadKey /\ [][NextLoadKey]_vars

InitImageSignature == InitSign /\ VerifyIdle /\ NormalizeIdle /\ LoadIdle

NextImageSignature ==
  \/ IsMarshalPayload
  \/ IsPayloadSignature
  \/ IsReturn

\* one call of ImageSignature
SpecImageSignature == InitImageSignature /\ [][NextImageSignature]_vars

(***************************************************************************)
(* What the properties speak of.                                           *)
(***************************************************************************)
\* how many of -key, -kms and -cert are given
NumSelectors ==
  (IF keyRef # "" THEN 1 ELSE 0) + (IF kmsVal # "" THEN 1 ELSE 0)
    + (IF certRef # "" THEN 1 ELSE 0)

\* the case of the switch a run takes
Mode ==
  IF keyRef # "" THEN "key"
  ELSE IF kmsVal # "" THEN "kms"
  ELSE IF certRef # "" THEN "cert"
  ELSE "none"

Called(op) == \E i \in DOMAIN calls : calls[i].op = op
Succeeded(op) == \E i \in DOMAIN calls : calls[i].op = op /\ calls[i].ok

\* the step of the verification flow a call belongs to: 2 LoadKey,
\* 3 DecodeSignatureAndArtifact, 4 Verify, 5 TrustChain, 6 TransparencyCheck
StepOf(op) ==
  IF op \in {"LoadPublicKey", "kms.Get", "ReadFile(cert)", "LoadCerts"} THEN 2
  ELSE IF op \in {"Stat(sig)", "ReadFile(sig)", "ReadAll(stdin)", "ReadFile(blob)",
                  "DecodeString"} THEN 3
  ELSE IF op = "Verify" THEN 4
  ELSE IF op = "TrustedCert" THEN 5
  ELSE 6

Terminated == pc = "done"
Accepted == Terminated /\ ret = "nil"
Failed == Terminated /\ ret = "error"
Confirmed == \E i \in DOMAIN stderr : stderr[i] = "Verified OK"

\* the call is one of the remote calls of the flow
IsRemote(c) ==
  \/ c.op \in {"kms.Get", "GetRekorClient", "FindTlogEntry"}
  \/ c.op = "Verify" /\ Mode = "kms"

(***************************************************************************)
(* C1 (as claimed): whenever more than one of the key, KMS and certificate *)
(* selectors is given, the command makes no call at all (no file read, no  *)
(* key load, no network call), never leaves the selection step other than  *)
(* by failing, and fails with the configuration error.                     *)
(***************************************************************************)
C1_SeveralSelectorsFailBeforeIO ==
  NumSelectors > 1 =>
    /\ calls = <<>>
    /\ pc \in {"SelectMode", "done"}
    /\ Terminated => ret = "error" /\ err = "one of -key and -cert required"

(***************************************************************************)
(* C2: a run returns nil only if pubKey.Verify succeeded, on the artifact  *)
(* bytes read and on the decoding of the normalised base64 signature, and, *)
(* in certificate mode, TrustedCert succeeded on the leaf, and, in         *)
(* transparency mode, FindTlogEntry succeeded; and no call it made failed. *)
(***************************************************************************)
C2_AcceptOnlyAfterEveryCheck ==
  Accepted =>
    /\ Succeeded("Verify")
    /\ verifyArgs = <<[key |-> pubKey[1], blob |-> blobBytes, sig |-> B64Decode(b64sig)]>>
    /\ B64DecodeOk(b64sig)
    /\ Mode = "cert" =>
         /\ Succeeded("TrustedCert")
         /\ trustArg = <<certs[1]>>
         /\ certs[1].trusted
    /\ experimental => Succeeded("FindTlogEntry")
    /\ \A i \in DOMAIN calls : calls[i].ok

C2_Witness ==
  /\ Accepted
  /\ Mode = "cert"
  /\ experimental
  /\ Len(sig) > 0

(***************************************************************************)
(* C3: the calls of a run are made in the order of the steps (LoadKey,     *)
(* DecodeSignatureAndArtifact, Verify, TrustChain, TransparencyCheck), no  *)
(* step starts before the one it depends on has succeeded, and the first   *)
(* failing call is the last call: the run has then returned its error.     *)
(***************************************************************************)
C3_StepsInOrderAndShortCircuit ==
  /\ \A i, j \in DOMAIN calls :
       i < j => StepOf(calls[i].op) <= StepOf(calls[j].op)
  /\ \A i \in DOMAIN calls :
       ~calls[i].ok => i = Len(calls) /\ Failed
  /\ Called("Stat(sig)") => pubKey # <<>>
  /\ Called("Verify") => Succeeded("DecodeString")
  /\ Called("TrustedCert") => Succeeded("Verify")
  /\ Called("GetRekorClient") =>
       /\ Succeeded("Verify")
       /\ Mode = "cert" => Succeeded("TrustedCert")
  /\ Called("FindTlogEntry") => Succeeded("GetRekorClient")

C3_Witness ==
  /\ Failed
  /\ err = "TrustedCert"
  /\ experimental
  /\ ~Called("GetRekorClient")

(***************************************************************************)
(* C4 (as claimed): a run that has ended in a failure has not written the  *)
(* confirmation "Verified OK".                                             *)
(***************************************************************************)
C4_ConfirmationOnlyOnAccept ==
  (Terminated /\ ret # "nil") => ~Confirmed

(***************************************************************************)
(* C5 (as claimed): for every signature s, the file holding the base64     *)
(* text of s and the file holding the raw bytes of s are normalised to the *)
(* same base64 text and the same signature bytes.                          *)
(***************************************************************************)
C5_TextAndRawAgree ==
  (nzText.done /\ nzRaw.done) =>
    /\ nzText.b64sig = nzRaw.b64sig
    /\ nzText.sig = nzRaw.sig

(***************************************************************************)
(* C5 (amended): the same, for every signature s that is empty or whose    *)
(* raw bytes the base64 decoder does not accept; the common signature      *)
(* bytes are then s and the common text is the base64 text of s.           *)
(***************************************************************************)
C5_TextAndRawAgreeUnlessRawIsBase64 ==
  (nzText.done /\ nzRaw.done /\ (nzSig = <<>> \/ ~B64DecodeOk(nzSig))) =>
    /\ nzText.b64sig = nzRaw.b64sig
    /\ nzText.sig = nzRaw.sig
    /\ nzRaw.sig = nzSig
    /\ nzRaw.b64sig = B64Encode(nzSig)

C5_Witness ==
  /\ nzText.done
  /\ nzRaw.done
  /\ Len(nzSig) >= 3
  /\ ~B64DecodeOk(nzSig)

(***************************************************************************)
(* C6 (as claimed): no run panics, and a run in certificate mode whose     *)
(* first certificate has a public key that is not an elliptic-curve key    *)
(* ends with a returned error and without having called Verify.            *)
(***************************************************************************)
C6_NonECCertificateIsAnError ==
  /\ ret # "panic"
  /\ (Terminated /\ Mode = "cert" /\ Len(certs) > 0 /\ certs[1].alg # "ecdsa") =>
       /\ ret = "error"
       /\ ~Called("Verify")

(***************************************************************************)
(* C7: LoadPrivateKey returns either a key and no error or no key and an   *)
(* error; it returns a key only if the input is a PEM block of type        *)
(* pemType whose payload is sealed with the passphrase given and holds a   *)
(* PKCS8 elliptic-curve key, which is then the key returned; with any      *)
(* other passphrase it returns no key and an error.                        *)
(***************************************************************************)
C7_LoadPrivateKeyFailsClosed ==
  lkPc = "done" =>
    /\ (lkRet.key = <<>>) <=> (lkRet.err # "nil")
    /\ lkRet.key # <<>> =>
         /\ lkKey.pem
         /\ lkKey.type = pemType
         /\ lkKey.sealedWith = lkPass
         /\ lkKey.der = "pkcs8-ecdsa"
         /\ lkRet.key = <<"pkcs8-ecdsa">>
    /\ lkKey.sealedWith # lkPass => lkRet.key = <<>> /\ lkRet.err # "nil"

C7_Witness ==
  /\ lkPc = "done"
  /\ lkKey.pem
  /\ lkKey.type = pemType
  /\ lkKey.der = "pkcs8-ecdsa"
  /\ lkKey.sealedWith = "hunter2"
  /\ lkPass = "letmein"
  /\ lkRet = [key |-> <<>>, err |-> "decrypt"]

(***************************************************************************)
(* C8: when none of the key, KMS and certificate selectors is given, the   *)
(* run makes no call (it does not look at the signature locator, reads no  *)
(* artifact, loads no key, reaches no KMS or log), writes nothing, and     *)
(* ends in the selection step with the error of the switch's default.      *)
(***************************************************************************)
C8_NoSelectorFailsInSelectMode ==
  NumSelectors = 0 =>
    /\ calls = <<>>
    /\ stderr = <<>>
    /\ pc \in {"SelectMode", "done"}
    /\ Terminated => ret = "error" /\ err = "one of -key and -cert required"

C8_Witness ==
  /\ NumSelectors = 0
  /\ Failed
  /\ sigRef # <<>>

(***************************************************************************)
(* C9: no call is made twice in a run: each of the key load, the signature *)
(* read, the artifact read, the verification, the trust-chain check, the   *)
(* log-client creation and the log lookup occurs at most once, and a call  *)
(* that failed is not followed by any call.                                *)
(***************************************************************************)
C9_NoStepRetried ==
  /\ \A i, j \in DOMAIN calls : calls[i].op = calls[j].op => i = j
  /\ \A i, j \in DOMAIN calls : (~calls[i].ok /\ i <= j) => i = j

C9_Witness ==
  /\ Failed
  /\ err = "FindTlogEntry"
  /\ Mode = "cert"
  /\ Len(calls) = 10

(***************************************************************************)
(* C10 (as claimed): a call to a remote service (KMS key resolution,       *)
(* verification through a KMS-backed key, log-client creation, log lookup) *)
(* that is made once the caller has cancelled fails; so no cancelled run   *)
(* is accepted through such a call.                                        *)
(***************************************************************************)
C10_RemoteCallsFailOnceCancelled ==
  \A i \in DOMAIN calls :
    (IsRemote(calls[i]) /\ calls[i].cancelled) => ~calls[i].ok

(***************************************************************************)
(* C11: a run that ends with an error returns the error its failing step   *)
(* produced: of the same kind, under the name of that step (the KMS error  *)
(* wrapped as "getting kms"); an error a step produced is never followed   *)
(* by success, and a run that has not failed carries no error.             *)
(***************************************************************************)
C11_ErrorsNotMasked ==
  /\ Failed =>
       /\ raised # <<>>
       /\ errKind = raised[1].kind
       /\ errKind \in ErrKinds(raised[1].step)
       /\ err = IF raised[1].step = "kms.Get" THEN "getting kms" ELSE raised[1].step
  /\ raised # <<>> => Failed
  /\ ~Failed => errKind = "nil" /\ err = "nil"
  /\ (calls # <<>> /\ ~calls[Len(calls)].ok) =>
       /\ raised # <<>>
       /\ raised[1].step = calls[Len(calls)].op

C11_Witness ==
  /\ Failed
  /\ err = "getting kms"
  /\ errKind = "BackendError"
  /\ raised = <<[step |-> "kms.Get", kind |-> "BackendError"]>>

(***************************************************************************)
(* C12: TrustedCert has been called exactly when the run is in certificate *)
(* mode, Verify has succeeded and the run is past the trust-chain          *)
(* statement; it is called on the first certificate of the bundle; in key  *)
(* and KMS mode it is never called; and in certificate mode a run that has *)
(* written the confirmation, started the transparency check or returned    *)
(* nil has had TrustedCert succeed on that certificate.                    *)
(***************************************************************************)
C12_TrustChainIffCertificateMode ==
  /\ Called("TrustedCert") <=>
       (Mode = "cert" /\ Succeeded("Verify") /\ pc # "TrustChain")
  /\ Called("TrustedCert") => trustArg = <<certs[1]>>
  /\ Mode \in {"key", "kms"} => ~Called("TrustedCert") /\ trustArg = <<>>
  /\ (Mode = "cert" /\ (Accepted \/ Confirmed \/ Called("GetRekorClient"))) =>
       /\ Succeeded("TrustedCert")
       /\ certs[1].trusted

C12_Witness ==
  /\ Accepted
  /\ Mode = "cert"
  /\ Succeeded("TrustedCert")
  /\ Len(certs) = 2
  /\ ~certs[2].trusted

(***************************************************************************)
(* C13: with transparency mode off, no log client is created, no public    *)
(* key is encoded and no lookup is made, and a run ends with nil exactly   *)
(* when it has passed the earlier steps (it has written the confirmation); *)
(* with transparency mode on, a run returns nil only after the client      *)
(* creation, the key encoding and the lookup all succeeded, and a failure  *)
(* of any of them ends the run with that error.                            *)
(***************************************************************************)
TlogOps == {"GetRekorClient", "PublicKeyPem", "FindTlogEntry"}

C13_TransparencyOnlyWhenEnabled ==
  /\ ~experimental =>
       /\ \A i \in DOMAIN calls : calls[i].op \notin TlogOps
       /\ tlogArgs = <<>>
       /\ pubBytes = NoPem
       /\ Terminated => (Accepted <=> Confirmed)
       /\ (Confirmed /\ pc # "Experimental") => Accepted
  /\ experimental =>
       /\ Accepted => \A op \in TlogOps : Succeeded(op)
       /\ \A i \in DOMAIN calls :
            (calls[i].op \in TlogOps /\ ~calls[i].ok) =>
              Failed /\ err = calls[i].op

C13_Witness ==
  /\ experimental
  /\ Failed
  /\ err = "FindTlogEntry"
  /\ errKind = "NotFoundError"
  /\ Confirmed

(***************************************************************************)
(* C14: LoadPrivateKey calls pem.Decode, encrypted.Decrypt and             *)
(* x509.ParsePKCS8PrivateKey in that order and reports the first stage     *)
(* that fails: an input that is not PEM, or whose block is not of type     *)
(* pemType, fails with a format error whatever the passphrase and without  *)
(* Decrypt being called; a failed decryption is reported as the decrypt    *)
(* error; a decrypted and parsed key that is not an elliptic-curve key is  *)
(* reported as a format error.                                             *)
(***************************************************************************)
\* the kind of an error of LoadPrivateKey, by its message
LoadErrorKind(e) ==
  IF e \in {"invalid pem block", "unsupported pem type", "invalid private key"}
    THEN "FormatError"
  ELSE IF e = "decrypt" THEN "DecryptError"
  ELSE IF e = "parsing private key" THEN "ParseError"
  ELSE "nil"

LoadStages == <<"pem.Decode", "encrypted.Decrypt", "x509.ParsePKCS8PrivateKey">>

C14_LoadPrivateKeyReportsFirstFailure ==
  /\ Len(lkCalls) <= Len(LoadStages)
  /\ lkCalls = SubSeq(LoadStages, 1, Len(lkCalls))
  /\ lkPc = "done" =>
       IF ~lkKey.pem
         THEN /\ lkRet = [key |-> <<>>, err |-> "invalid pem block"]
              /\ LoadErrorKind(lkRet.err) = "FormatError"
              /\ lkCalls = <<"pem.Decode">>
       ELSE IF lkKey.type # pemType
         THEN /\ lkRet = [key |-> <<>>, err |-> "unsupported pem type"]
              /\ LoadErrorKind(lkRet.err) = "FormatError"
              /\ lkCalls = <<"pem.Decode">>
       ELSE IF lkKey.sealedWith # lkPass
         THEN /\ LoadErrorKind(lkRet.err) = "DecryptError"
              /\ lkCalls = SubSeq(LoadStages, 1, 2)
       ELSE IF lkKey.der = "garbage"
         THEN /\ lkRet.err = "parsing private key"
              /\ lkCalls = LoadStages
       ELSE IF lkKey.der # "pkcs8-ecdsa"
         THEN /\ lkRet = [key |-> <<>>, err |-> "invalid private key"]
              /\ LoadErrorKind(lkRet.err) = "FormatError"
       ELSE lkRet.err = "nil"

C14_Witness ==
  /\ lkPc = "done"
  /\ lkKey.pem
  /\ lkKey.type # pemType
  /\ lkKey.sealedWith = lkPass
  /\ lkKey.der = "pkcs8-ecdsa"
  /\ lkRet.err = "unsupported pem type"

(***************************************************************************)
(* C15: when FindTlogEntry is called, Verify has succeeded, and the lookup *)
(* is given the base64 text whose decoding Verify was given, the artifact  *)
(* bytes Verify was given, and as public key material the PEM of the leaf  *)
(* certificate in certificate mode and the PEM of the key Verify was       *)
(* called on in key and KMS mode.                                          *)
(***************************************************************************)
C15_LookupUsesVerifiedData ==
  tlogArgs # <<>> =>
    /\ Called("FindTlogEntry")
    /\ Succeeded("Verify")
    /\ verifyArgs # <<>>
    /\ B64DecodeOk(tlogArgs[1].b64sig)
    /\ B64Decode(tlogArgs[1].b64sig) = verifyArgs[1].sig
    /\ tlogArgs[1].payload = verifyArgs[1].blob
    /\ tlogArgs[1].pub =
         IF Mode = "cert" THEN CertToPem(certs[1])
         ELSE PublicKeyPem(verifyArgs[1].key)
    /\ verifyArgs[1].key.kind = Mode

C15_Witness ==
  /\ tlogArgs # <<>>
  /\ Mode = "cert"
  /\ Len(certs) = 2
  /\ certs[1] # certs[2]
  /\ tlogArgs[1].b64sig = <<81, 81, 61, 61, 10>>
  /\ tlogArgs[1].payload = <<65>>

(***************************************************************************)
(* C16: ImageSignature calls the signer at most once, and only after the   *)
(* payload was serialised; when serialisation fails the signer is never    *)
(* called; when it returns an error, the payload and the signature it      *)
(* returns are both nil; when it returns no error, the signer was called   *)
(* exactly once, without error, on the payload bytes returned, and the     *)
(* signature returned is the one the signer gave.                          *)
(***************************************************************************)
C16_ImageSignatureShortCircuits ==
  /\ Len(isSignerCalls) <= 1
  /\ isSignerCalls # <<>> =>
       /\ isMarshal = "ok"
       /\ isSignerCalls[1].payload = MarshalJSON(isImg, isAnn)
  /\ isMarshal = "error" => isSignerCalls = <<>> /\ isPc = "done"
  /\ isPc = "done" =>
       /\ isRet.err # "none"
       /\ (isRet.err # "nil") <=>
            (isMarshal = "error" \/ isSignerCalls[1].err # "nil")
       /\ isRet.err # "nil" => isRet.payload = <<>> /\ isRet.signature = <<>>
       /\ isRet.err = "nil" =>
            /\ Len(isSignerCalls) = 1
            /\ isSignerCalls[1].err = "nil"
            /\ isRet.payload = <<isSignerCalls[1].payload>>
            /\ isRet.signature = <<isSignerCalls[1].sig>>

C16_Witness ==
  /\ isPc = "done"
  /\ isRet.err = "failed to create signature"
  /\ isSignerCalls # <<>>
  /\ isSignerCalls[1].sig = <<48, 69>>
  /\ isPayload # <<>>

====
